---- MODULE Spec2Model ----
(***************************************************************************)
(* Model of package ctxhelper (type H): every OnDone registration waits in *)
(* its own goroutine for the helper's context to be cancelled or for Quit, *)
(* and Wait joins these goroutines through a sync.WaitGroup.               *)
(*                                                                         *)
(* Up to NumThreads caller goroutines are inside a method of one H at any  *)
(* time.  Callers have no identity of their own, so the calls in progress  *)
(* are a bag of records.  A method is split where it touches shared state  *)
(* a second time, so that other goroutines interleave there:               *)
(*   OnDone         check of IsDone/IsQuit | wg.Add and go                 *)
(*   Quit           entry of the Once      | close(quitch)                 *)
(*   Wait           call | read of the counter | resumption after release  *)
(*   CancelAndWait  cancel                 | Wait                          *)
(* The two channel reads of OnDone's check are one step: both channels     *)
(* only ever go from open to closed, so a check that passes saw both open  *)
(* at the time of its first read, and a check that fails returns without   *)
(* any effect.  A goroutine's steps that touch nothing shared (the go      *)
(* statement, the return of fn, the return out of the select) are taken    *)
(* together with its next shared step.  wg.Done is one atomic step         *)
(* (decrement, release of the blocked Wait callers).  A runtime panic      *)
(* stops the whole program: no action is enabled once fault is set.        *)
(*                                                                         *)
(* pre, racy, quitReturns, cancelCalled, qawReturned, cawReturned and the  *)
(* owed field of a call record what has happened; no action reads them.    *)
(* A specification keeps only the records its properties need (watch),     *)
(* the others stay at their initial value.                                 *)
(*                                                                         *)
(* Spec and its variants with records model the current package.  SpecLive *)
(* adds the fairness of the Go scheduler.  SpecSelf adds callbacks that    *)
(* call a waiting method of their own helper.  SpecOld is the first        *)
(* variant of the package, in which Cancel waits and OnDone has no check.  *)
(***************************************************************************)
EXTENDS Integers, FiniteSets, Sequences, Bags, TLC

NumThreads == 2
MaxReg == 2

Regs == 1..MaxReg

VARIABLES
    parentSt,     \* the parent context: "live", "canceling" (its done channel is closed, children not yet cancelled), "canceled"
    ctxDone,      \* h.ctx.Done() is closed
    quitClosed,   \* h.quitch is closed
    onceDone,     \* h.quitOnce has run its function
    onceLocked,   \* a caller holds the mutex of h.quitOnce
    wg,           \* the counter of h.wg
    task,         \* per registration: the state of its waiting goroutine
    calls,        \* per registration: how many times fn was invoked
    fault,        \* "none", or the runtime panic that stopped the program
    active,       \* the bag of method calls in progress: [op, pc, reg, owed]
    nextReg,      \* the next unused registration
    pre,          \* registrations whose OnDone was called with the context done or quit triggered
    racy,         \* registrations whose OnDone call was between its check and its go statement when quitch was closed
    quitReturns,  \* how many calls of Quit have returned, counted up to QuitCap
    cancelCalled, \* h.cancel() has been called
    qawReturned,  \* some call of QuitAndWait has returned
    cawReturned,  \* some call of CancelAndWait or Close has returned
    watch         \* which of the records owed, racy, qaw, caw, cancel, quits are kept; it never changes

vars == <<parentSt, ctxDone, quitClosed, onceDone, onceLocked, wg, task, calls, fault,
          active, nextReg, pre, racy, quitReturns, cancelCalled, qawReturned, cawReturned, watch>>

----
\* H.IsDone: a non-blocking receive on h.ctx.Done()
IsDone == ctxDone

\* H.IsQuit: a non-blocking receive on h.quitch
IsQuit == quitClosed

\* faulty checks: one that leaves out IsQuit, one that leaves out IsDone
OnDoneSkipsDoneOnly == IsDone
OnDoneSkipsQuitOnly == IsQuit

\* OnDone's check `h.IsDone() || h.IsQuit()`: the call is a no-op
OnDoneSkips == IsDone \/ IsQuit

\* the calls in progress
Active == BagToSet(active)

\* a caller goroutine is free to make a call
CanCall == fault = "none" /\ BagCardinality(active) < NumThreads

\* a call in progress: op is the method, pc the position in it, reg the registration of an
\* OnDone call, or the registration whose callback makes the call (0 for any other caller),
\* owed the registrations whose goroutine was running when Wait was called and
\* has not ended since
InCall(o, l, r, w) == [op |-> o, pc |-> l, reg |-> r, owed |-> w]

\* the registrations whose waiting goroutine has been started
Spawned == {r \in Regs : task[r] # "none"}

\* the registrations that passed OnDone's check and are about to start their goroutine
Pending == {c.reg : c \in {d \in Active : d.pc = "od_add"}}

\* the registrations whose waiting goroutine has not called wg.Done yet
Live == {r \in Regs : task[r] \in {"waiting", "running"}}

\* a faulty OnDone that starts the goroutine without h.wg.Add(1)
WgAddNone(c) == c

\* sync.WaitGroup.Add(1) and sync.WaitGroup.Done() on the counter
WgAdd(c) == c + 1
WgDone(c) == c - 1

\* faulty selects: one that takes a closed quitch for a cancellation, one that does not
\* wait for h.ctx.Done()
SelectReadyQuitRuns == IF ctxDone \/ quitClosed THEN {"done"} ELSE {}
SelectReadyNoWait == {"done"} \cup (IF quitClosed THEN {"quit"} ELSE {})

\* the cases of the waiting goroutine's select that can proceed; Go picks any one of them
SelectReady == (IF ctxDone THEN {"done"} ELSE {}) \cup (IF quitClosed THEN {"quit"} ELSE {})

\* a faulty Close that cancels and does not wait
CallsWaitNotClose(o) == o \in {"CancelAndWait", "QuitAndWait"}

\* a faulty Cancel that waits, as CancelAndWait does
CallsWaitCancelToo(o) == o \in {"Cancel", "CancelAndWait", "Close", "QuitAndWait"}

\* CancelAndWait, Close and QuitAndWait go on to call Wait; Cancel and Quit return
CallsWait(o) == o \in {"CancelAndWait", "Close", "QuitAndWait"}

\* the bag b with one call c more, with one less, and with c replaced by d
With(b, c) == b (+) SetToBag({c})
Without(b, c) == b (-) SetToBag({c})
Replace(b, c, d) == With(Without(b, c), d)

----
\* a faulty New that hands out a context that is done
NewCtxDoneAlways(p) == TRUE

\* New: context.WithCancel(ctx) returns a child that is done from the start exactly when
\* the parent ctx is cancelled already
NewCtxDone(p) == p = "canceled"

\* the state New returns: ctx is any non-nil context, cancelled before the call or not
Start ==
    /\ parentSt \in {"live", "canceled"}
    /\ ctxDone = NewCtxDone(parentSt)
    /\ quitClosed = FALSE
    /\ onceDone = FALSE
    /\ onceLocked = FALSE
    /\ wg = 0
    /\ task = [r \in Regs |-> "none"]
    /\ calls = [r \in Regs |-> 0]
    /\ fault = "none"
    /\ active = EmptyBag
    /\ nextReg = 1
    /\ pre = {}
    /\ racy = {}
    /\ quitReturns = 0
    /\ cancelCalled = FALSE
    /\ qawReturned = FALSE
    /\ cawReturned = FALSE

Init == Start /\ watch = {}

\* record x is kept
Kept(x) == x \in watch

\* returns of Quit are counted up to two when the count is kept, else up to one
QuitCap == IF Kept("quits") THEN 2 ELSE 1
QuitCounted(n) == IF n < QuitCap THEN n + 1 ELSE n

\* some call of Quit has returned
quitReturned == quitReturns > 0

\* the call of h.Wait(), by a caller or from inside method o
WaitOf(o) == InCall(o, "w_begin", 0, IF Kept("owed") THEN Live ELSE {})

\* OnDone is called and makes its check: a no-op when the context is done or quit was triggered
OnDoneCheck ==
    /\ CanCall
    /\ nextReg <= MaxReg
    /\ nextReg' = nextReg + 1
    /\ pre' = IF IsDone \/ IsQuit THEN pre \cup {nextReg} ELSE pre
    /\ IF OnDoneSkips
         THEN UNCHANGED active
         ELSE active' = With(active, InCall("OnDone", "od_add", nextReg, {}))
    /\ UNCHANGED <<parentSt, ctxDone, quitClosed, onceDone, onceLocked, wg, task, calls, fault,
                   racy, quitReturns, cancelCalled, qawReturned, cawReturned, watch>>

\* OnDone: h.wg.Add(1), then the go statement starts the waiting goroutine, and OnDone returns
OnDoneSpawn(c) ==
    /\ fault = "none"
    /\ c.pc = "od_add"
    /\ wg' = WgAdd(wg)
    /\ task' = [task EXCEPT ![c.reg] = "waiting"]
    /\ active' = Without(active, c)
    /\ UNCHANGED <<parentSt, ctxDone, quitClosed, onceDone, onceLocked, calls, fault,
                   nextReg, pre, racy, quitReturns, cancelCalled, qawReturned, cawReturned, watch>>

\* Cancel, CancelAndWait, Close: h.cancel() closes the done channel of h.ctx
\* (a no-op when it is closed already); Cancel returns, the others call Wait
CancelCtx(o) ==
    /\ CanCall
    /\ ctxDone' = TRUE
    /\ cancelCalled' = (cancelCalled \/ Kept("cancel"))
    /\ active' = IF CallsWait(o) THEN With(active, WaitOf(o)) ELSE active
    /\ UNCHANGED <<parentSt, quitClosed, onceDone, onceLocked, wg, task, calls, fault,
                   nextReg, pre, racy, quitReturns, qawReturned, cawReturned, watch>>

\* a faulty Quit that closes quitch without the Once
OnceRunsAlways == TRUE

\* sync.Once.Do runs its function unless the Once has run it
OnceRuns == ~onceDone

\* Quit, QuitAndWait: h.quitOnce.Do returns at once when the Once has run; otherwise the
\* caller takes the mutex of the Once (it waits while another caller holds it)
QuitOnce(o) ==
    /\ CanCall
    /\ IF OnceRuns
         THEN /\ ~onceLocked
              /\ onceLocked' = TRUE
              /\ active' = With(active, InCall(o, "q_close", 0, {}))
              /\ UNCHANGED quitReturns
         ELSE /\ active' = IF CallsWait(o) THEN With(active, WaitOf(o)) ELSE active
              /\ quitReturns' = QuitCounted(quitReturns)
              /\ UNCHANGED onceLocked
    /\ UNCHANGED <<parentSt, ctxDone, quitClosed, onceDone, wg, task, calls, fault,
                   nextReg, pre, racy, cancelCalled, qawReturned, cawReturned, watch>>

\* a faulty Quit that cancels the context as well
QuitCloseCancels(c) ==
    /\ fault = "none"
    /\ c.pc = "q_close"
    /\ ~quitClosed
    /\ quitClosed' = TRUE
    /\ ctxDone' = TRUE
    /\ racy' = IF Kept("racy") THEN racy \cup Pending ELSE racy
    /\ onceDone' = TRUE
    /\ onceLocked' = FALSE
    /\ active' = IF CallsWait(c.op) THEN Replace(active, c, [WaitOf(c.op) EXCEPT !.reg = c.reg])
                                     ELSE Without(active, c)
    /\ quitReturns' = QuitCounted(quitReturns)
    /\ UNCHANGED <<parentSt, wg, task, calls, fault,
                   nextReg, pre, cancelCalled, qawReturned, cawReturned, watch>>

\* Quit: close(h.quitch) inside the Once, which then sets its flag and frees its mutex;
\* closing a closed channel panics
QuitClose(c) ==
    /\ fault = "none"
    /\ c.pc = "q_close"
    /\ IF quitClosed
         THEN /\ fault' = "close of closed channel"
              /\ UNCHANGED <<quitClosed, onceDone, onceLocked, active, racy, quitReturns>>
         ELSE /\ quitClosed' = TRUE
              /\ racy' = IF Kept("racy") THEN racy \cup Pending ELSE racy
              /\ onceDone' = TRUE
              /\ onceLocked' = FALSE
              /\ active' = IF CallsWait(c.op)
                              THEN Replace(active, c, [WaitOf(c.op) EXCEPT !.reg = c.reg])
                              ELSE Without(active, c)
              /\ quitReturns' = QuitCounted(quitReturns)
              /\ UNCHANGED fault
    /\ UNCHANGED <<parentSt, ctxDone, wg, task, calls,
                   nextReg, pre, cancelCalled, qawReturned, cawReturned, watch>>

\* Close: `return nil` after h.CancelAndWait() has returned
CloseResult == "nil"

\* Wait is called
WaitCall ==
    /\ CanCall
    /\ active' = With(active, WaitOf("Wait"))
    /\ UNCHANGED <<parentSt, ctxDone, quitClosed, onceDone, onceLocked, wg, task, calls, fault,
                   nextReg, pre, racy, quitReturns, cancelCalled, qawReturned, cawReturned, watch>>

\* Wait (and with it CancelAndWait, QuitAndWait, Close) returns to its caller
WaitReturn(c) ==
    /\ active' = Without(active, c)
    /\ qawReturned' = (qawReturned \/ (Kept("qaw") /\ c.op = "QuitAndWait"))
    /\ cawReturned' = (cawReturned \/ (Kept("caw") /\ c.op \in {"CancelAndWait", "Close"}))

\* a faulty Wait that does not wait
WaitPassesAlways(n) == TRUE

\* h.wg.Wait() returns at once when it reads a counter of zero
WaitPasses(n) == n = 0

\* Wait: h.wg.Wait() reads the counter: zero returns, otherwise the caller blocks
WaitBegin(c) ==
    /\ fault = "none"
    /\ c.pc = "w_begin"
    /\ IF WaitPasses(wg)
         THEN WaitReturn(c)
         ELSE /\ active' = Replace(active, c, [c EXCEPT !.pc = "w_blocked"])
              /\ UNCHANGED <<qawReturned, cawReturned>>
    /\ UNCHANGED <<parentSt, ctxDone, quitClosed, onceDone, onceLocked, wg, task, calls, fault,
                   nextReg, pre, racy, quitReturns, cancelCalled, watch>>

\* Wait: a released caller runs again; sync.WaitGroup panics when its state is no longer zero
\* ("WaitGroup is reused before previous Wait has returned")
WaitResume(c) ==
    /\ fault = "none"
    /\ c.pc = "w_released"
    /\ IF wg = 0
         THEN WaitReturn(c) /\ UNCHANGED fault
         ELSE /\ fault' = "WaitGroup is reused"
              /\ UNCHANGED <<active, qawReturned, cawReturned>>
    /\ UNCHANGED <<parentSt, ctxDone, quitClosed, onceDone, onceLocked, wg, task, calls,
                   nextReg, pre, racy, quitReturns, cancelCalled, watch>>

\* a faulty Done that wakes up no blocked Wait caller
AfterExitNoRelease(c, r, n) == [c EXCEPT !.owed = c.owed \ {r}]

\* a call in progress after the goroutine of registration r has ended with counter n
AfterExit(c, r, n) ==
    [c EXCEPT !.pc = IF n = 0 /\ c.pc = "w_blocked" THEN "w_released" ELSE c.pc,
              !.owed = c.owed \ {r}]

\* the waiting goroutine of registration r ends: the deferred h.wg.Done() runs; a counter
\* that reaches zero releases every blocked Wait caller, a negative one panics
TaskExit(r) ==
    /\ wg' = WgDone(wg)
    /\ task' = [task EXCEPT ![r] = "exited"]
    /\ fault' = IF WgDone(wg) < 0 THEN "negative WaitGroup counter" ELSE fault
    /\ active' = LET F(c) == AfterExit(c, r, WgDone(wg)) IN BagOfAll(F, active)

\* a faulty goroutine that calls h.wg.Done() before fn() instead of deferring it
TaskRunDoneFirst(r) ==
    /\ fault = "none"
    /\ task[r] = "waiting"
    /\ "done" \in SelectReady
    /\ calls' = [calls EXCEPT ![r] = @ + 1]
    /\ wg' = WgDone(wg)
    /\ task' = [task EXCEPT ![r] = "running"]
    /\ active' = LET F(c) == AfterExit(c, r, WgDone(wg)) IN BagOfAll(F, active)
    /\ UNCHANGED <<parentSt, ctxDone, quitClosed, onceDone, onceLocked, fault,
                   nextReg, pre, racy, quitReturns, cancelCalled, qawReturned, cawReturned, watch>>

\* the waiting goroutine of registration r: its select takes the case of h.ctx.Done() and calls fn
TaskRun(r) ==
    /\ fault = "none"
    /\ task[r] = "waiting"
    /\ "done" \in SelectReady
    /\ task' = [task EXCEPT ![r] = "running"]
    /\ calls' = [calls EXCEPT ![r] = @ + 1]
    /\ UNCHANGED <<parentSt, ctxDone, quitClosed, onceDone, onceLocked, wg, fault,
                   active, nextReg, pre, racy, quitReturns, cancelCalled, qawReturned, cawReturned, watch>>

\* a faulty goroutine that returns on quit without h.wg.Done()
TaskQuitNoDone(r) ==
    /\ fault = "none"
    /\ task[r] = "waiting"
    /\ "quit" \in SelectReady
    /\ task' = [task EXCEPT ![r] = "exited"]
    /\ UNCHANGED <<parentSt, ctxDone, quitClosed, onceDone, onceLocked, wg, calls, fault, active,
                   nextReg, pre, racy, quitReturns, cancelCalled, qawReturned, cawReturned, watch>>

\* the waiting goroutine of registration r: its select takes the case of h.quitch and returns
TaskQuit(r) ==
    /\ fault = "none"
    /\ task[r] = "waiting"
    /\ "quit" \in SelectReady
    /\ TaskExit(r)
    /\ UNCHANGED <<parentSt, ctxDone, quitClosed, onceDone, onceLocked, calls,
                   nextReg, pre, racy, quitReturns, cancelCalled, qawReturned, cawReturned, watch>>

\* a faulty goroutine that goes back to its select after fn() has returned
TaskFnReturnLoops(r) ==
    /\ fault = "none"
    /\ task[r] = "running"
    /\ task' = [task EXCEPT ![r] = "waiting"]
    /\ UNCHANGED <<parentSt, ctxDone, quitClosed, onceDone, onceLocked, wg, calls, fault, active,
                   nextReg, pre, racy, quitReturns, cancelCalled, qawReturned, cawReturned, watch>>

\* the callback of registration r is inside a call it made on its own helper
InOwnCall(r) == \E c \in Active : c.reg = r /\ c.op # "OnDone"

\* the waiting goroutine of registration r: fn() returns, and the goroutine ends
TaskFnReturn(r) ==
    /\ fault = "none"
    /\ task[r] = "running"
    /\ ~InOwnCall(r)
    /\ TaskExit(r)
    /\ UNCHANGED <<parentSt, ctxDone, quitClosed, onceDone, onceLocked, calls,
                   nextReg, pre, racy, quitReturns, cancelCalled, qawReturned, cawReturned, watch>>

\* the owner of the parent context calls its cancel function: the parent's done channel closes
ParentCancel ==
    /\ fault = "none"
    /\ parentSt = "live"
    /\ parentSt' = "canceling"
    /\ UNCHANGED <<ctxDone, quitClosed, onceDone, onceLocked, wg, task, calls, fault,
                   active, nextReg, pre, racy, quitReturns, cancelCalled, qawReturned, cawReturned, watch>>

\* a faulty New whose context is not a child of ctx: the parent's cancellation does not reach it
ParentPropagateLost ==
    /\ fault = "none"
    /\ parentSt = "canceling"
    /\ parentSt' = "canceled"
    /\ UNCHANGED <<ctxDone, quitClosed, onceDone, onceLocked, wg, task, calls, fault,
                   active, nextReg, pre, racy, quitReturns, cancelCalled, qawReturned, cawReturned, watch>>

\* the parent's cancel function cancels the child context made by context.WithCancel, and returns
ParentPropagate ==
    /\ fault = "none"
    /\ parentSt = "canceling"
    /\ parentSt' = "canceled"
    /\ ctxDone' = TRUE
    /\ UNCHANGED <<quitClosed, onceDone, onceLocked, wg, task, calls, fault,
                   active, nextReg, pre, racy, quitReturns, cancelCalled, qawReturned, cawReturned, watch>>

Next ==
    \/ OnDoneCheck
    \/ \E c \in Active : OnDoneSpawn(c)
    \/ \E o \in {"Cancel", "CancelAndWait", "Close"} : CancelCtx(o)
    \/ \E o \in {"Quit", "QuitAndWait"} : QuitOnce(o)
    \/ \E c \in Active : QuitClose(c)
    \/ WaitCall
    \/ \E c \in Active : WaitBegin(c)
    \/ \E c \in Active : WaitResume(c)
    \/ \E r \in Regs : TaskRun(r)
    \/ \E r \in Regs : TaskQuit(r)
    \/ \E r \in Regs : TaskFnReturn(r)
    \/ ParentCancel
    \/ ParentPropagate

Spec == Init /\ [][Next]_vars

\* the same program, with the records of what has happened that the properties read
InitOwed == Start /\ watch = {"owed"}
SpecOwed == InitOwed /\ [][Next]_vars

InitRet == Start /\ watch = {"qaw", "caw", "cancel"}
SpecRet == InitRet /\ [][Next]_vars

InitQuit == Start /\ watch = {"qaw", "racy", "quits"}
SpecQuit == InitQuit /\ [][Next]_vars

\* the calls that can be in progress, when no record is kept
WaitOps == {"Wait", "CancelAndWait", "QuitAndWait", "Close"}
CallRecs ==
    {InCall(o, l, 0, {}) : o \in WaitOps, l \in {"w_begin", "w_released"}}
    \cup {InCall(o, "q_close", 0, {}) : o \in {"Quit", "QuitAndWait"}}
    \cup {InCall("OnDone", "od_add", r, {}) : r \in Regs}

\* the Go scheduler: a goroutine that can run does run eventually, be it a caller in the
\* middle of a method or a waiting goroutine whose select has a ready case; a callback
\* returns; the parent's cancel function completes.  Nothing obliges anyone to make a call.
Fairness ==
    /\ \A c \in CallRecs :
          WF_vars(OnDoneSpawn(c) \/ QuitClose(c) \/ WaitBegin(c) \/ WaitResume(c))
    /\ \A r \in Regs : WF_vars(TaskRun(r) \/ TaskQuit(r))
    /\ \A r \in Regs : WF_vars(TaskFnReturn(r))
    /\ WF_vars(ParentPropagate)

SpecLive == Init /\ [][Next]_vars /\ Fairness

----
\* Callbacks that call a waiting method of their own helper.  fn runs in the goroutine
\* OnDone started, so the call is made by that goroutine, and fn returns (and the deferred
\* h.wg.Done() runs) only after the call has returned.  These calls count among the
\* NumThreads calls in progress at a time.

\* fn of registration r calls Wait, CancelAndWait or Close: h.cancel() for the latter two,
\* then h.Wait()
FnCalls(r, o) ==
    /\ CanCall
    /\ task[r] = "running"
    /\ ~InOwnCall(r)
    /\ ctxDone' = (ctxDone \/ o # "Wait")
    /\ cancelCalled' = (cancelCalled \/ (Kept("cancel") /\ o # "Wait"))
    /\ active' = With(active, [WaitOf(o) EXCEPT !.reg = r])
    /\ UNCHANGED <<parentSt, quitClosed, onceDone, onceLocked, wg, task, calls, fault,
                   nextReg, pre, racy, quitReturns, qawReturned, cawReturned, watch>>

\* fn of registration r calls QuitAndWait: h.quitOnce.Do as in QuitOnce, then h.Wait()
FnCallsQuit(r) ==
    /\ CanCall
    /\ task[r] = "running"
    /\ ~InOwnCall(r)
    /\ IF OnceRuns
         THEN /\ ~onceLocked
              /\ onceLocked' = TRUE
              /\ active' = With(active, InCall("QuitAndWait", "q_close", r, {}))
              /\ UNCHANGED quitReturns
         ELSE /\ active' = With(active, [WaitOf("QuitAndWait") EXCEPT !.reg = r])
              /\ quitReturns' = QuitCounted(quitReturns)
              /\ UNCHANGED onceLocked
    /\ UNCHANGED <<parentSt, ctxDone, quitClosed, onceDone, wg, task, calls, fault,
                   nextReg, pre, racy, cancelCalled, qawReturned, cawReturned, watch>>

NextSelf ==
    \/ Next
    \/ \E r \in Regs, o \in {"Wait", "CancelAndWait", "Close"} : FnCalls(r, o)
    \/ \E r \in Regs : FnCallsQuit(r)

SpecSelf == Init /\ [][NextSelf]_vars

----
\* The first variant of the package: OnDone makes no check, there is no Quit, and Cancel
\* waits (Close calls Cancel, there is no CancelAndWait).

\* a faulty OnDone that starts the goroutine without h.wg.Add(1)
OnDoneOldNoAdd ==
    /\ CanCall
    /\ nextReg <= MaxReg
    /\ nextReg' = nextReg + 1
    /\ pre' = IF IsDone THEN pre \cup {nextReg} ELSE pre
    /\ task' = [task EXCEPT ![nextReg] = "waiting"]
    /\ UNCHANGED <<parentSt, ctxDone, quitClosed, onceDone, onceLocked, wg, calls, fault, active,
                   racy, quitReturns, cancelCalled, qawReturned, cawReturned, watch>>

\* OnDone of the first variant: h.wg.Add(1) and the go statement, whatever the state of
\* the context; pre records the calls made with the context done
OnDoneOld ==
    /\ CanCall
    /\ nextReg <= MaxReg
    /\ nextReg' = nextReg + 1
    /\ pre' = IF IsDone THEN pre \cup {nextReg} ELSE pre
    /\ wg' = WgAdd(wg)
    /\ task' = [task EXCEPT ![nextReg] = "waiting"]
    /\ UNCHANGED <<parentSt, ctxDone, quitClosed, onceDone, onceLocked, calls, fault, active,
                   racy, quitReturns, cancelCalled, qawReturned, cawReturned, watch>>

\* Cancel of the first variant (and Close, which calls it): h.cancel(), then h.Wait()
CancelOld(o) ==
    /\ CanCall
    /\ ctxDone' = TRUE
    /\ cancelCalled' = (cancelCalled \/ Kept("cancel"))
    /\ active' = With(active, WaitOf(o))
    /\ UNCHANGED <<parentSt, quitClosed, onceDone, onceLocked, wg, task, calls, fault,
                   nextReg, pre, racy, quitReturns, qawReturned, cawReturned, watch>>

NextOld ==
    \/ OnDoneOld
    \/ \E o \in {"Cancel", "Close"} : CancelOld(o)
    \/ WaitCall
    \/ \E c \in Active : WaitBegin(c)
    \/ \E c \in Active : WaitResume(c)
    \/ \E r \in Regs : TaskRun(r)
    \/ \E r \in Regs : TaskFnReturn(r)
    \/ ParentCancel
    \/ ParentPropagate

SpecOld == Init /\ [][NextOld]_vars

----
TypeOK ==
    /\ parentSt \in {"live", "canceling", "canceled"}
    /\ ctxDone \in BOOLEAN /\ quitClosed \in BOOLEAN /\ onceDone \in BOOLEAN
    /\ onceLocked \in BOOLEAN
    /\ wg \in 0..MaxReg
    /\ task \in [Regs -> {"none", "waiting", "running", "exited"}]
    /\ calls \in [Regs -> 0..1]
    /\ IsABag(active) /\ BagCardinality(active) <= NumThreads
    /\ pre \subseteq Regs /\ racy \subseteq Regs

----
(***************************************************************************)
(* Properties                                                              *)
(***************************************************************************)

\* the step in which the Wait of call c (and with it the method c is in) returns
Returns(c) ==
    /\ c \in Active
    /\ c.pc \in {"w_begin", "w_released"}
    /\ active' = Without(active, c)

\* the goroutine of registration r starts to execute fn in this step
Starts(r) == task[r] # "running" /\ task'[r] = "running"

\* the total number of invocations of callbacks
RECURSIVE SumCalls(_)
SumCalls(R) == IF R = {} THEN 0
               ELSE LET r == CHOOSE x \in R : TRUE IN calls[r] + SumCalls(R \ {r})
TotalCalls == SumCalls(Regs)

\* the callbacks that have executed to completion
Completed == {r \in Regs : calls[r] >= 1 /\ task[r] = "exited"}

\* the number of OnDone calls made so far that were not no-ops
Registrations == (nextReg - 1) - Cardinality(pre)

\* no call of Quit or QuitAndWait has been made
NoQuitCall == ~onceDone /\ ~onceLocked

\* C1: when CancelAndWait returns, with no call of Quit made and no OnDone call still
\* between its check and its go statement, exactly as many callbacks have executed to
\* completion as registrations were made on the helper while it was neither cancelled
\* nor quit, no callback was invoked besides, and the counter of the WaitGroup is 0.
C1_CancelAndWaitRunsAll ==
    [][\A c \in Active :
         (Returns(c) /\ c.op = "CancelAndWait" /\ NoQuitCall' /\ Pending' = {})
         => /\ Cardinality(Completed') = Registrations'
            /\ TotalCalls' = Registrations'
            /\ wg' = 0]_vars

\* a CancelAndWait has returned after MaxReg registrations, all of them executed
C1_Witness ==
    /\ cawReturned /\ NoQuitCall /\ active = EmptyBag /\ fault = "none"
    /\ Registrations = MaxReg
    /\ Completed = Regs
    /\ wg = 0

\* C2: when QuitAndWait returns, with no cancellation of the helper or of its parent so
\* far and no OnDone call still between its check and its go statement, no callback has
\* been invoked, every waiting goroutine has ended, the counter of the WaitGroup is 0 and
\* IsDone() is false.
C2_QuitAndWaitRunsNone ==
    [][\A c \in Active :
         (Returns(c) /\ c.op = "QuitAndWait" /\ ~cancelCalled' /\ parentSt' = "live"
            /\ Pending' = {})
         => /\ TotalCalls' = 0
            /\ \A r \in Spawned' : task'[r] = "exited"
            /\ wg' = 0
            /\ ~IsDone']_vars

\* a QuitAndWait has returned after MaxReg registrations, with no cancellation
C2_Witness ==
    /\ qawReturned /\ ~cancelCalled /\ parentSt = "live" /\ active = EmptyBag
    /\ Registrations = MaxReg
    /\ \A r \in Regs : task[r] = "exited" /\ calls[r] = 0
    /\ wg = 0 /\ ~IsDone /\ IsQuit

\* C3: once a call of Quit has returned, no callback that has not started executing
\* starts executing.
C3_QuitAlwaysWins ==
    [][\A r \in Regs : quitReturned => ~Starts(r)]_vars

C5_WaitNeverEarly ==
    [][\A c \in Active : Returns(c) => c.owed = {}]_vars

\* a Wait that blocked on goroutines has been released after all of them ended
C5_Witness ==
    \E c \in Active :
        /\ c.pc = "w_released" /\ c.owed = {} /\ wg = 0 /\ fault = "none"
        /\ \A r \in Regs : task[r] = "exited"

\* C6: whenever a callback is executing or has executed, the context of the helper is done.
C6_RunsOnlyWhenDone ==
    \A r \in Regs : (task[r] = "running" \/ calls[r] > 0) => IsDone

\* a callback executes after the parent context was cancelled, with no call of Cancel
C6_Witness ==
    \E r \in Regs : task[r] = "running" /\ parentSt = "canceled" /\ IsDone

\* C7: no registration has its callback invoked more than once.
C7_AtMostOnce ==
    \A r \in Regs : calls[r] <= 1

\* every callback has been invoked once, the context is done and quit was triggered too
C7_Witness ==
    /\ \A r \in Regs : calls[r] = 1 /\ task[r] = "exited"
    /\ IsDone /\ IsQuit

\* C8: the counter of the WaitGroup is never negative, and it equals the number of
\* registrations whose goroutine was started and has not ended: each registration holds
\* one unit of the counter from its Add to its Done, on either way out.
C8_CounterMatches ==
    /\ wg >= 0
    /\ fault # "negative WaitGroup counter"
    /\ wg = Cardinality(Live)

\* one goroutine has ended after running its callback, another after observing quit
C8_Witness ==
    /\ wg = 0
    /\ \E r \in Regs : task[r] = "exited" /\ calls[r] = 1
    /\ \E r \in Regs : task[r] = "exited" /\ calls[r] = 0

\* C9: an OnDone call made when the context is done or quit has been triggered changes
\* neither the counter nor any goroutine nor the calls in progress, and the registration
\* it stands for never gets a goroutine or an invocation.
C9_OnDoneNoOp ==
    [][/\ (nextReg' # nextReg /\ (IsDone \/ IsQuit))
            => (wg' = wg /\ task' = task /\ calls' = calls /\ active' = active)
       /\ \A r \in pre' : task'[r] = "none" /\ calls'[r] = 0]_vars

\* OnDone was called after quit on a helper that is not cancelled, and after that
\* the helper was cancelled
C9_Witness ==
    /\ \E r \in pre : task[r] = "none" /\ r > 1
    /\ IsQuit /\ IsDone /\ Cardinality(pre) = 1 /\ parentSt = "live"

\* C10: quitch is never closed twice, IsQuit() is true once any call of Quit has
\* returned, and once true it stays true; a call of Quit made after that changes nothing
\* but to return.
C10_QuitIdempotent ==
    [][/\ fault' # "close of closed channel"
       /\ quitReturned' => IsQuit'
       /\ IsQuit => IsQuit'
       /\ (IsQuit /\ quitReturns' # quitReturns)
            => (quitClosed' = quitClosed /\ onceDone' = onceDone /\ wg' = wg
                /\ task' = task /\ ctxDone' = ctxDone)]_vars

\* two calls of Quit have returned
C10_Witness ==
    quitReturns = 2 /\ IsQuit /\ fault = "none"

\* nothing has been called on the helper
Untouched ==
    /\ nextReg = 1 /\ active = EmptyBag /\ ~onceDone /\ ~onceLocked /\ ~quitClosed
    /\ wg = 0 /\ fault = "none"

\* C11 as stated: in the state New returns, for any non-nil ctx, IsDone() is false.
C11_NewNotDone ==
    ~IsDone /\ [][TRUE]_vars

\* C11: in the state New returns, IsDone() is false when ctx is not cancelled, and true
\* when ctx was cancelled before New was called.
C11_NewDoneIffParentDone ==
    (IsDone <=> parentSt = "canceled") /\ [][TRUE]_vars

\* New has returned a helper for a ctx that is not cancelled, and IsDone() is false
C11_Witness ==
    Untouched /\ parentSt = "live" /\ ~IsDone

\* C12: while the parent context is not cancelled and no cancelling method of the helper
\* was called, IsDone() is false; once the parent's cancel function has returned, IsDone()
\* is true and the goroutine of every registration that still waits can take the case of
\* h.ctx.Done() and run its callback, whether or not a method of the helper was called.
C12_InheritsParentCancel ==
    /\ (parentSt = "live" /\ ~cancelCalled) => ~IsDone
    /\ parentSt = "canceled" =>
          /\ IsDone
          /\ \A r \in Regs : (task[r] = "waiting" /\ fault = "none") => ENABLED TaskRun(r)

\* the parent was cancelled after two registrations, no cancelling method of the helper was
\* called, one callback has run and the other is eligible to run
C12_Witness ==
    /\ parentSt = "canceled" /\ ~cancelCalled /\ ~IsQuit /\ IsDone /\ pre = {}
    /\ \E r \in Regs : calls[r] = 1
    /\ \E r \in Regs : task[r] = "waiting"

\* the state of the helper, its goroutines and its callers
hstate == <<parentSt, ctxDone, quitClosed, onceDone, onceLocked, wg, task, calls, fault,
            active, nextReg>>

Blocked == {c \in Active : c.pc = "w_blocked"}
Released == {c \in Active : c.pc = "w_released"}

\* C14: with several callers inside Wait at a time, a caller is blocked only while the
\* counter is above zero (the step that brings the counter to zero releases all of them),
\* and no caller returns from Wait in a state in which the counter is above zero.
C14_ConcurrentWait ==
    /\ [](Blocked # {} => wg > 0)
    /\ [][(wg > 0 /\ wg' = 0) => (Blocked' = {} /\ BagCardinality(active') = BagCardinality(active))]_vars
    /\ [][\A c \in Active : Returns(c) => (wg = 0 /\ wg' = 0)]_vars

\* two callers blocked in Wait were released together by the Done of the last goroutine
C14_Witness ==
    /\ wg = 0 /\ fault = "none" /\ Blocked = {}
    /\ BagCardinality(active) = 2
    /\ \A c \in Active : c.pc = "w_released"
    /\ \E r \in Regs : task[r] = "exited"

\* the calls in progress, with every call of Close taken for a call of CancelAndWait
AsCancelAndWait(b) ==
    LET F(c) == [c EXCEPT !.op = IF @ = "Close" THEN "CancelAndWait" ELSE @]
    IN  BagOfAll(F, b)

\* C15: a call of Close does to the helper what a call of CancelAndWait does: its first
\* step is, up to the name of the call, the first step of CancelAndWait (the context is
\* done, the caller goes on to Wait); when it returns the context is done, the counter is 0
\* and its result is nil; and when it returns with no call of Quit made and no OnDone call
\* still between its check and its go statement, every registration has executed its
\* callback once, as C1 states for CancelAndWait.
C15_CloseIsCancelAndWait ==
    /\ [][CancelCtx("Close") =>
            /\ IsDone'
            /\ AsCancelAndWait(active') = AsCancelAndWait(With(active, WaitOf("CancelAndWait")))
            /\ UNCHANGED <<parentSt, quitClosed, onceDone, onceLocked, wg, task, calls, fault,
                           nextReg>>]_vars
    /\ [][\A c \in Active :
            (Returns(c) /\ c.op = "Close") =>
               /\ IsDone' /\ wg' = 0 /\ cawReturned' /\ CloseResult = "nil"
               /\ (NoQuitCall' /\ Pending' = {}) =>
                     /\ Cardinality(Completed') = Registrations'
                     /\ TotalCalls' = Registrations']_vars

\* a call of Close was released from its Wait after every registration executed its callback
C15_Witness ==
    /\ \E c \in Active : c.op = "Close" /\ c.pc = "w_released"
    /\ Completed = Regs /\ IsDone /\ wg = 0 /\ NoQuitCall /\ fault = "none"
    /\ parentSt = "live"

ReturnsFrom(o) == \E c \in Active : Returns(c) /\ c.op = o

\* C17: under fair scheduling (callbacks return and call no method of the helper), a
\* goroutine that waits when the context is done or quit was triggered eventually ends,
\* and every call of CancelAndWait, QuitAndWait or Close eventually returns: calls of the
\* method return again and again, or from some time on none is in progress.
C17_CallsReturn ==
    /\ \A r \in Regs :
          (task[r] = "waiting" /\ (IsDone \/ IsQuit)) ~> (task[r] = "exited")
    /\ \A o \in {"CancelAndWait", "QuitAndWait", "Close"} :
          []<><<ReturnsFrom(o)>>_vars \/ <>[](\A c \in Active : c.op # o)

\* C17, leaving aside the behaviours in which the program has panicked
C17_CallsReturnUnlessPanic ==
    /\ \A r \in Regs :
          (task[r] = "waiting" /\ (IsDone \/ IsQuit)) ~> (task[r] = "exited" \/ fault # "none")
    /\ \A o \in {"CancelAndWait", "QuitAndWait", "Close"} :
          \/ []<><<ReturnsFrom(o)>>_vars
          \/ <>[](\A c \in Active : c.op # o)
          \/ <>(fault # "none")

\* C18: once a call of CancelAndWait or Close has returned, no callback is executing,
\* whenever its OnDone call was made.
C18_NothingRunsAfterReturn ==
    cawReturned => \A r \in Regs : task[r] # "running"

\* C19: the parent context changes only by its owner's cancel function; a call of Cancel,
\* CancelAndWait or Close leaves the parent and IsQuit() as they are; a call of Quit or
\* QuitAndWait leaves IsDone() and the parent as they are, in each of its steps.
C19_TriggersAreScoped ==
    [][/\ parentSt' # parentSt => (ParentCancel \/ ParentPropagate)
       /\ \A o \in {"Cancel", "CancelAndWait", "Close"} :
             CancelCtx(o) => (parentSt' = parentSt /\ IsQuit' = IsQuit)
       /\ \A o \in {"Quit", "QuitAndWait"} :
             QuitOnce(o) => (parentSt' = parentSt /\ IsDone' = IsDone)
       /\ \A c \in Active :
             QuitClose(c) => (parentSt' = parentSt /\ IsDone' = IsDone)
       /\ \A c \in Active :
             (WaitBegin(c) \/ WaitResume(c)) => UNCHANGED <<parentSt, ctxDone, quitClosed>>]_vars

\* a QuitAndWait has returned and IsDone() is still false; the parent is not cancelled
C19_Witness ==
    /\ qawReturned /\ IsQuit /\ ~IsDone /\ ~cancelCalled /\ parentSt = "live"
    /\ \E r \in Regs : task[r] = "exited"

\* the calls of a waiting method made by a callback on its own helper
SelfCalls == {c \in Active : c.reg \in Regs /\ c.op \in WaitOps}

\* C20: a call of Wait, CancelAndWait, QuitAndWait or Close made by a callback on its own
\* helper never returns; from the moment such a call is made the counter stays above zero,
\* the callback does not return, and no other caller returns from Wait either.
C20_SelfWaitNeverReturns ==
    [][/\ \A c \in SelfCalls : ~Returns(c)
       /\ SelfCalls # {} =>
             /\ wg > 0 /\ wg' > 0
             /\ \A c \in SelfCalls : \E d \in SelfCalls' : d.reg = c.reg /\ d.op = c.op
             /\ \A c \in SelfCalls : task'[c.reg] = "running"
             /\ \A c \in Active : ~Returns(c)]_vars

\* a callback is blocked in a call of CancelAndWait on its own helper, and another caller
\* is blocked in Wait
C20_Witness ==
    /\ \E c \in SelfCalls : c.pc = "w_blocked" /\ c.op = "CancelAndWait"
    /\ \E d \in Active : d.reg = 0 /\ d.op = "Wait" /\ d.pc = "w_blocked"
    /\ wg > 0 /\ fault = "none"

====
